---------------------------- MODULE Spec2Model ----------------------------
(***************************************************************************)
(* A model of raw_image_processor.py: the process_raw_image function (the  *)
(* RAW -> enhancement pipeline -> JPEG orchestration) and the tkinter form *)
(* RawImageProcessorApp that drives it.                                    *)
(*                                                                         *)
(* Numbers.  A slider position is an integer number of 1/Ticks of a slider *)
(* unit (position 15 with Ticks = 4 is the value 3.75).  A native float    *)
(* parameter is the numerator of a fraction over Den = 100 * Ticks, so the *)
(* scalings of do_process_image are exact.  A raster is a record           *)
(* [nd, ch, px]: the number of array dimensions, the channel count and the *)
(* sequence of pixels, each a sequence of ch samples in 0..255.            *)
(***************************************************************************)
EXTENDS Integers, Sequences, FiniteSets, TLC

VARIABLES
    \* ---- RawImageProcessorApp (the form)
    inputPath,        \* self.input_path
    outputPath,       \* self.output_path
    sliders,          \* the six slider variables, in slider positions
    buttonState,      \* self.process_button state: "normal" | "disabled"
    progressRunning,  \* self.progress started and not stopped
    processing,       \* self.processing
    scheduled,        \* number of pending root.after(100, do_process_image)
    viewButton,       \* self.view_button state
    lastProcessed,    \* self.last_processed_image
    dialog,           \* the last message box shown
    \* ---- one execution of process_raw_image / do_process_image
    pc,               \* position of the running handler, "idle" when none
    args,             \* the arguments process_raw_image was called with
    image,            \* the raster the pipeline currently holds
    stages,           \* the pipeline stages executed so far, in order
    result,           \* the value process_raw_image returned
    failure,          \* what went wrong in this call, "none" if nothing
    decoderCalled,    \* rawpy.imread was invoked in this call
    codecImage,       \* the raster handed to cv2.imwrite, NoImage if none
    fs,               \* the file system: created directories, written files
    fsAtCall,         \* the file system when the call started
    \* ---- the contrast formula applied to one sample
    cSample, cContrast, cOut

uiVars   == <<inputPath, outputPath, sliders, buttonState, progressRunning,
              processing, scheduled, viewButton, lastProcessed, dialog>>
callVars == <<pc, args, image, stages, result, failure, decoderCalled,
              codecImage, fs, fsAtCall>>
cVars    == <<cSample, cContrast, cOut>>
vars     == <<uiVars, callVars, cVars>>

---------------------------------------------------------------------------
(* Bounds of the model *)

\* slider positions per slider unit
Ticks == 4

Den == 100 * Ticks

None    == "None"
NoImage == [nd |-> 0, ch |-> 0, px |-> <<>>]

---------------------------------------------------------------------------
(* Arithmetic helpers *)

Min(a, b) == IF a < b THEN a ELSE b
Max(a, b) == IF a > b THEN a ELSE b
Clip(x, lo, hi) == Max(lo, Min(hi, x))

\* n / d (d > 0) rounded to the nearest integer, ties to the even one: cvRound,
\* Python's round
RoundHalfEven(n, d) ==
    LET q == n \div d
        r == n % d
    IN  IF 2 * r < d THEN q
        ELSE IF 2 * r > d THEN q + 1
        ELSE IF q % 2 = 0 THEN q ELSE q + 1

\* n / d (n >= 0, d > 0) truncated toward zero: int(), astype(np.uint8)
Trunc(n, d) == n \div d

\* The integers a single-precision value n / d >= 0 can truncate to.  The product
\* and the sum are rounded to 24 bits, so a value that is exactly an integer
\* can be computed just below it (p = 15, contrast = 1.08 gives 5.9999995).
TruncF32(n, d) ==
    {Trunc(n, d)} \cup (IF n % d = 0 /\ n > 0 THEN {Trunc(n, d) - 1} ELSE {})

RECURSIVE SeqProduct(_)
\* all sequences s with s[i] \in sets[i]
SeqProduct(sets) ==
    IF sets = <<>> THEN {<<>>}
    ELSE {<<h>> \o t : h \in sets[1], t \in SeqProduct(Tail(sets))}

RECURSIVE SetMin(_)
SetMin(S) == LET x == CHOOSE y \in S : TRUE
             IN  IF S = {x} THEN x ELSE Min(x, SetMin(S \ {x}))
RECURSIVE SetMax(_)
SetMax(S) == LET x == CHOOSE y \in S : TRUE
             IN  IF S = {x} THEN x ELSE Max(x, SetMax(S \ {x}))

---------------------------------------------------------------------------
(* The parameter scalings of do_process_image *)

\* tk.IntVar.get() on a variable a ttk.Scale wrote a float into, then int()
IntVarGet(q) == Trunc(q, Ticks)

ScaleSharpeningWrong(q) == 2 * q
\* self.sharpening_strength.get() / 100 * 3.0
ScaleSharpening(q) == 3 * q

\* self.noise_reduction.get() / 100
ScaleNoise(q) == q

ScaleSaturationWrong(q) == 4 * q
\* self.saturation.get() / 50
ScaleSaturation(q) == 2 * q

\* self.contrast.get() / 50
ScaleContrast(q) == 2 * q

\* the keyword arguments of the process_raw_image call
Normalize(s) ==
    [sharpening_strength |-> ScaleSharpening(s.sharpening_strength),
     blur_sigma          |-> IntVarGet(s.blur_sigma),
     jpeg_quality        |-> IntVarGet(s.jpeg_quality),
     noise_reduction     |-> ScaleNoise(s.noise_reduction),
     saturation          |-> ScaleSaturation(s.saturation),
     contrast            |-> ScaleContrast(s.contrast)]

---------------------------------------------------------------------------
(* Files and paths *)

ExistsWrong(path) == path # ""
\* os.path.exists(input_path)
Exists(path) == path \notin {"", "missing.cr2"}

\* what rawpy.imread(path).postprocess() yields: pixels are <<R, G, B>>
FileRaster(path) ==
    CASE path = "photo.cr2"   -> [nd |-> 3, ch |-> 3, px |-> <<<<200, 10, 30>>>>]
      [] path = "gray.cr2"    -> [nd |-> 3, ch |-> 3,
                                  px |-> <<<<128, 128, 128>>, <<128, 128, 128>>>>]
      [] path = "edge.cr2"    -> [nd |-> 3, ch |-> 3,
                                  px |-> <<<<200, 10, 30>>, <<202, 10, 30>>>>]
      [] path = "dark.cr2"    -> [nd |-> 3, ch |-> 3,
                                  px |-> <<<<0, 0, 0>>, <<2, 0, 0>>>>]
      [] path = "mono.dng"    -> [nd |-> 3, ch |-> 1, px |-> <<<<128>>>>]
      [] path = "mono2d.dng"  -> [nd |-> 2, ch |-> 1, px |-> <<<<128>>>>]
      [] OTHER                -> NoImage

\* rawpy raises on a file it cannot decode
DecoderFails(path) == FileRaster(path) = NoImage

\* os.path.dirname(output_path)
OutputDir(path) ==
    CASE path = "home/photo_processed.jpg" -> "home"
      [] path = "new/out.jpg"              -> "new"
      [] path = "ro/out.jpg"               -> "ro"
      [] path = "blocked/x/out.jpg"        -> "blocked/x"
      [] OTHER                             -> ""

\* os.path.exists(output_dir)
DirExists(d, f) == d \in ({"home", "ro"} \cup f.dirs)

\* os.makedirs(output_dir) succeeds (it raises OSError under "blocked")
CanCreate(d) == d = "new"

\* what cv2.imwrite can do with the path: write the file ("ok"), fail to open
\* it and return False ("false"), or raise cv2.error ("raise")
CodecOutcomes(path) ==
    CASE path = ""           -> {"raise"}
      [] path = "ro/out.jpg" -> {"false", "raise"}
      [] OTHER               -> {"ok"}

---------------------------------------------------------------------------
(* Pixel operations of the pipeline; a pixel is <<B, G, R>> after line 46 *)

\* cv2.cvtColor(rgb_image, cv2.COLOR_RGB2BGR) needs 3 (or 4) channels
CanSwap(img) == img.nd = 3 /\ img.ch \in {3, 4}
SwapRB(img) ==
    [nd |-> 3, ch |-> 3,
     px |-> [i \in DOMAIN img.px |-> <<img.px[i][3], img.px[i][2], img.px[i][1]>>]]

\* the values of channel c over the raster
ChannelValues(img, c) == {img.px[i][c] : i \in DOMAIN img.px}

\* A smoothing filter with a normalised non-negative kernel (GaussianBlur with
\* reflected borders, non-local means): every output sample is a weighted mean of
\* the channel's input samples, so it lies between their minimum and maximum.
SmoothChoices(img) ==
    LET chan(c) == SetMin(ChannelValues(img, c)) .. SetMax(ChannelValues(img, c))
        pixel   == {<<b, g, r>> : b \in chan(1), g \in chan(2), r \in chan(3)}
    IN  {[nd |-> img.nd, ch |-> img.ch, px |-> p] :
            p \in SeqProduct([i \in DOMAIN img.px |-> pixel])}

\* cv2.GaussianBlur(image_bgr, (0, 0), sigmaX=blur_sigma): with a zero kernel size
\* the sigma must be positive
GaussianBlurFails(sigma) == sigma <= 0
GaussianBlur(img, sigma) == SmoothChoices(img)

AddWeightedSampleWrong(a, b, s) ==
    Clip(RoundHalfEven(a * (Den + s) - b * (Den + s), Den), 0, 255)
\* one sample of cv2.addWeighted(image_bgr, 1.0 + s, blurred, -s, 0)
AddWeightedSample(a, b, s) ==
    Clip(RoundHalfEven(a * (Den + s) - b * s, Den), 0, 255)

AddWeighted(img, blurred, s) ==
    [img EXCEPT !.px =
        [i \in DOMAIN img.px |->
            [c \in 1..3 |-> AddWeightedSample(img.px[i][c], blurred.px[i][c], s)]]]

\* cv2.fastNlMeansDenoisingColored(sharpened, None, h, h, 7, 21)
Denoise(img, noise) == SmoothChoices(img)

\* one pixel of cv2.cvtColor(_, cv2.COLOR_BGR2HSV) on 8-bit samples:
\* V = max, S = 255 (V - min) / V, H = hue in degrees / 2
BGR2HSV(p) ==
    LET b == p[1]  g == p[2]  r == p[3]
        v == Max(b, Max(g, r))
        d == v - Min(b, Min(g, r))
        s == IF v = 0 THEN 0 ELSE RoundHalfEven(255 * d, v)
        n == IF v = r THEN 60 * (g - b)
             ELSE IF v = g THEN 120 * d + 60 * (b - r)
             ELSE 240 * d + 60 * (r - g)
        h == IF d = 0 THEN 0
             ELSE RoundHalfEven(IF n < 0 THEN n + 360 * d ELSE n, 2 * d) % 180
    IN  <<h, s, v>>

\* one pixel of cv2.cvtColor(_, cv2.COLOR_HSV2BGR)
HSV2BGR(q) ==
    LET h == q[1]  s == q[2]  v == q[3]
        i == (h \div 30) % 6
        f == h % 30
        x == RoundHalfEven(v * (255 - s), 255)
        y == RoundHalfEven(v * (255 * 30 - s * f), 255 * 30)
        t == RoundHalfEven(v * (255 * 30 - s * (30 - f)), 255 * 30)
    IN  CASE i = 0 -> <<x, t, v>>
          [] i = 1 -> <<x, v, y>>
          [] i = 2 -> <<t, v, x>>
          [] i = 3 -> <<v, y, x>>
          [] i = 4 -> <<v, x, t>>
          [] OTHER -> <<y, x, v>>

\* hsv[:,:,1] * saturation, np.clip(_, 0, 255), then astype(np.uint8)
SaturationSample(s, sat) ==
    IF sat = Den THEN {s}
    ELSE IF s * sat > 255 * Den THEN {255}
    ELSE TruncF32(s * sat, Den)

ContrastSampleRounded(p, con) ==
    LET n == (2 * p - 255) * con + 255 * Den
    IN  {Clip(RoundHalfEven(n, 2 * Den), 0, 255)}
\* (enhanced - 127.5) * contrast + 127.5 in float32, np.clip(_, 0, 255), then
\* astype(np.uint8): the value is n / (2 Den)
ContrastSample(p, con) ==
    LET n == (2 * p - 255) * con + 255 * Den
    IN  IF n <= 0 THEN {0}
        ELSE IF n > 255 * 2 * Den THEN {255}
        ELSE TruncF32(n, 2 * Den)

\* lines 66-85 on one pixel: the rasters `enhanced` can be
ColorPixel(p, sat, con) ==
    LET hsv == BGR2HSV(p)
        back == {HSV2BGR(<<hsv[1], s, hsv[3]>>) : s \in SaturationSample(hsv[2], sat)}
    IN  IF con = Den THEN back
        ELSE UNION {SeqProduct([c \in 1..3 |-> ContrastSample(q[c], con)]) : q \in back}

ColorEnhance(img, sat, con) ==
    {[img EXCEPT !.px = p] :
        p \in SeqProduct([i \in DOMAIN img.px |-> ColorPixel(img.px[i], sat, con)])}

\* cv2.cvtColor(enhanced, cv2.COLOR_GRAY2BGR)
Gray2BGR(img) ==
    [nd |-> 3, ch |-> 3,
     px |-> [i \in DOMAIN img.px |-> <<img.px[i][1], img.px[i][1], img.px[i][1]>>]]

---------------------------------------------------------------------------
(* process_raw_image, one action per statement group *)

NoArgs == [input_path |-> "", output_path |-> "", sharpening_strength |-> 0,
           blur_sigma |-> 0, jpeg_quality |-> 0, noise_reduction |-> 0,
           saturation |-> 0, contrast |-> 0]

\* the except clause (lines 98-100): the call returns None
Raise(class) ==
    /\ failure' = class
    /\ result' = None
    /\ pc' = "returned"

\* lines 30-32: the input file must exist
CheckInput ==
    /\ pc = "exists"
    /\ IF Exists(args.input_path)
       THEN pc' = "makedirs" /\ UNCHANGED <<result, failure>>
       ELSE Raise("input-missing")
    /\ UNCHANGED <<args, image, stages, decoderCalled, codecImage, fs, fsAtCall>>
    /\ UNCHANGED <<uiVars, cVars>>

\* lines 35-37: create the output directory if it is absent
MakeDirs ==
    /\ pc = "makedirs"
    /\ LET d == OutputDir(args.output_path)
       IN  IF d # "" /\ ~DirExists(d, fs)
           THEN IF CanCreate(d)
                THEN /\ fs' = [fs EXCEPT !.dirs = @ \cup {d}]
                     /\ pc' = "decode"
                     /\ UNCHANGED <<result, failure>>
                ELSE Raise("makedirs") /\ UNCHANGED fs
           ELSE pc' = "decode" /\ UNCHANGED <<fs, result, failure>>
    /\ UNCHANGED <<args, image, stages, decoderCalled, codecImage, fsAtCall>>
    /\ UNCHANGED <<uiVars, cVars>>

\* lines 41-43: rawpy.imread(input_path), raw.postprocess()
Decode ==
    /\ pc = "decode"
    /\ decoderCalled' = TRUE
    /\ IF DecoderFails(args.input_path)
       THEN Raise("decode") /\ UNCHANGED image
       ELSE /\ image' = FileRaster(args.input_path)
            /\ pc' = "bgr"
            /\ UNCHANGED <<result, failure>>
    /\ UNCHANGED <<args, stages, codecImage, fs, fsAtCall>>
    /\ UNCHANGED <<uiVars, cVars>>

\* line 46: cv2.cvtColor(rgb_image, cv2.COLOR_RGB2BGR)
ToBGR ==
    /\ pc = "bgr"
    /\ IF CanSwap(image)
       THEN /\ image' = SwapRB(image)
            /\ pc' = "sharpen"
            /\ UNCHANGED <<result, failure>>
       ELSE Raise("pipeline") /\ UNCHANGED image
    /\ UNCHANGED <<args, stages, decoderCalled, codecImage, fs, fsAtCall>>
    /\ UNCHANGED <<uiVars, cVars>>

\* lines 50-56: unsharp masking; a library call can also raise (cv2.error,
\* MemoryError on a large raster)
Sharpen ==
    /\ pc = "sharpen"
    /\ \/ /\ ~GaussianBlurFails(args.blur_sigma)
          /\ \E blurred \in GaussianBlur(image, args.blur_sigma) :
                image' = AddWeighted(image, blurred, args.sharpening_strength)
          /\ stages' = Append(stages, "sharpen")
          /\ pc' = "denoise"
          /\ UNCHANGED <<result, failure>>
       \/ /\ Raise("pipeline")
          /\ UNCHANGED <<image, stages>>
    /\ UNCHANGED <<args, decoderCalled, codecImage, fs, fsAtCall>>
    /\ UNCHANGED <<uiVars, cVars>>

DenoiseEnabledWrong(a) == a.noise_reduction >= 0
\* line 59: if noise_reduction > 0
DenoiseEnabled(a) == a.noise_reduction > 0

\* lines 59-63
DenoiseStage ==
    /\ pc = "denoise"
    /\ IF DenoiseEnabled(args)
       THEN \/ /\ image' \in Denoise(image, args.noise_reduction)
               /\ stages' = Append(stages, "denoise")
               /\ pc' = "color"
               /\ UNCHANGED <<result, failure>>
            \/ /\ Raise("pipeline")
               /\ UNCHANGED <<image, stages>>
       ELSE pc' = "color" /\ UNCHANGED <<image, stages, result, failure>>
    /\ UNCHANGED <<args, decoderCalled, codecImage, fs, fsAtCall>>
    /\ UNCHANGED <<uiVars, cVars>>

\* line 66: if saturation != 1.0 or contrast != 1.0
ColorEnabled(a) == a.saturation # Den \/ a.contrast # Den
\* line 79: if contrast != 1.0
ContrastEnabled(a) == a.contrast # Den

\* lines 66-85
ColorStage ==
    /\ pc = "color"
    /\ IF ColorEnabled(args)
       THEN \/ /\ image' \in ColorEnhance(image, args.saturation, args.contrast)
               /\ stages' = stages \o <<"saturation">>
                            \o (IF ContrastEnabled(args) THEN <<"contrast">> ELSE <<>>)
               /\ pc' = "guard"
               /\ UNCHANGED <<result, failure>>
            \/ /\ Raise("pipeline")
               /\ UNCHANGED <<image, stages>>
       ELSE pc' = "guard" /\ UNCHANGED <<image, stages, result, failure>>
    /\ UNCHANGED <<args, decoderCalled, codecImage, fs, fsAtCall>>
    /\ UNCHANGED <<uiVars, cVars>>

\* lines 88-90: a grayscale raster is converted to colour
GrayscaleGuard ==
    /\ pc = "guard"
    /\ image' = IF image.nd = 2 \/ image.ch = 1 THEN Gray2BGR(image) ELSE image
    /\ pc' = "write"
    /\ UNCHANGED <<args, stages, result, failure, decoderCalled, codecImage, fs, fsAtCall>>
    /\ UNCHANGED <<uiVars, cVars>>

\* lines 93-96: cv2.imwrite's return value is not looked at
WriteJpeg ==
    /\ pc = "write"
    /\ codecImage' = image
    /\ \E o \in CodecOutcomes(args.output_path) :
          CASE o = "ok"    -> /\ fs' = [fs EXCEPT !.files = @ \cup {args.output_path}]
                              /\ result' = args.output_path
                              /\ pc' = "returned"
                              /\ UNCHANGED failure
            [] o = "false" -> /\ failure' = "encode"
                              /\ result' = args.output_path
                              /\ pc' = "returned"
                              /\ UNCHANGED fs
            [] OTHER       -> Raise("encode") /\ UNCHANGED fs
    /\ UNCHANGED <<args, image, stages, decoderCalled, fsAtCall>>
    /\ UNCHANGED <<uiVars, cVars>>

ProcessRawImage ==
    \/ CheckInput \/ MakeDirs \/ Decode \/ ToBGR \/ Sharpen
    \/ DenoiseStage \/ ColorStage \/ GrayscaleGuard \/ WriteJpeg

---------------------------------------------------------------------------
(* RawImageProcessorApp *)

SliderNames == {"sharpening_strength", "blur_sigma", "jpeg_quality",
                "noise_reduction", "saturation", "contrast"}

\* the from_ and to of each ttk.Scale (lines 151-181), in slider units
SliderFrom(name) ==
    CASE name = "blur_sigma" -> 1 [] name = "jpeg_quality" -> 50 [] OTHER -> 0
SliderTo(name) == 100

\* the values of __init__ (lines 118-123) and reset_parameters (lines 253-258)
DefaultSliders ==
    [sharpening_strength |-> 50 * Ticks, blur_sigma |-> 3 * Ticks,
     jpeg_quality |-> 95 * Ticks, noise_reduction |-> 30 * Ticks,
     saturation |-> 55 * Ticks, contrast |-> 55 * Ticks]

\* The positions a slider is dragged to in the model: its two ends, its default,
\* the neutral middle, and for the two integer variables a position between two
\* integers (one tick below the next integer above the default).
SliderPositions(name) ==
    {SliderFrom(name) * Ticks, SliderTo(name) * Ticks, DefaultSliders[name]}
    \cup (IF name \in {"saturation", "contrast"} THEN {50 * Ticks} ELSE {})
    \cup (IF name \in {"blur_sigma", "jpeg_quality"}
          THEN {DefaultSliders[name] + Ticks - 1} ELSE {})

\* what the user can put in the two path entries
UiInputPaths  == {"", "photo.cr2"}
UiOutputPaths == {"", "home/photo_processed.jpg"}

\* no handler is running: the event loop takes the next event
Idle == pc = "idle"

\* typing in the input entry
EditInputPath ==
    /\ Idle
    /\ \E p \in UiInputPaths : inputPath' = p
    /\ UNCHANGED <<outputPath, sliders, buttonState, progressRunning, processing,
                   scheduled, viewButton, lastProcessed, dialog>>
    /\ UNCHANGED <<callVars, cVars>>

\* browse_input_file (lines 231-242): the output path is generated beside the input
BrowseInputFile ==
    /\ Idle
    /\ \E p \in UiInputPaths \ {""} :
          /\ inputPath' = p
          /\ outputPath' = "home/photo_processed.jpg"
    /\ UNCHANGED <<sliders, buttonState, progressRunning, processing,
                   scheduled, viewButton, lastProcessed, dialog>>
    /\ UNCHANGED <<callVars, cVars>>

\* typing in the output entry, browse_output_file (lines 244-250)
EditOutputPath ==
    /\ Idle
    /\ \E p \in UiOutputPaths : outputPath' = p
    /\ UNCHANGED <<inputPath, sliders, buttonState, progressRunning, processing,
                   scheduled, viewButton, lastProcessed, dialog>>
    /\ UNCHANGED <<callVars, cVars>>

\* dragging a ttk.Scale writes a position of its range into its variable
MoveSlider ==
    /\ Idle
    /\ \E name \in SliderNames : \E q \in SliderPositions(name) :
          sliders' = [sliders EXCEPT ![name] = q]
    /\ UNCHANGED <<inputPath, outputPath, buttonState, progressRunning, processing,
                   scheduled, viewButton, lastProcessed, dialog>>
    /\ UNCHANGED <<callVars, cVars>>

\* reset_parameters (lines 251-258)
ResetParameters ==
    /\ Idle
    /\ sliders' = DefaultSliders
    /\ UNCHANGED <<inputPath, outputPath, buttonState, progressRunning, processing,
                   scheduled, viewButton, lastProcessed, dialog>>
    /\ UNCHANGED <<callVars, cVars>>

ButtonAfterClickWrong == "normal"
\* line 271: self.process_button.config(state=tk.DISABLED)
ButtonAfterClick == "disabled"

\* process_image (lines 260-277); a disabled button takes no click
ProcessImage ==
    /\ Idle
    /\ buttonState = "normal"
    /\ \/ /\ inputPath = ""
          /\ dialog' = "select-input"
          /\ UNCHANGED <<buttonState, progressRunning, processing, scheduled>>
       \/ /\ inputPath # "" /\ outputPath = ""
          /\ dialog' = "specify-output"
          /\ UNCHANGED <<buttonState, progressRunning, processing, scheduled>>
       \/ /\ inputPath # "" /\ outputPath # ""
          /\ buttonState' = ButtonAfterClick
          /\ progressRunning' = TRUE
          /\ processing' = TRUE
          /\ scheduled' = scheduled + 1
          /\ UNCHANGED dialog
    /\ UNCHANGED <<inputPath, outputPath, sliders, viewButton, lastProcessed>>
    /\ UNCHANGED <<callVars, cVars>>

\* do_process_image, lines 280-303: the scheduled callback starts, reads the form
\* and calls process_raw_image; reading a variable can raise (tk.TclError)
DoProcessImageStart ==
    /\ Idle
    /\ scheduled > 0
    /\ scheduled' = scheduled - 1
    /\ \/ /\ args' = [input_path |-> inputPath, output_path |-> outputPath]
                     @@ Normalize(sliders)
          /\ pc' = "exists"
          /\ UNCHANGED dialog
       \/ /\ dialog' = "exception"
          /\ pc' = "dialog"
          /\ UNCHANGED args
    /\ image' = NoImage /\ stages' = <<>> /\ result' = "unset" /\ failure' = "none"
    /\ decoderCalled' = FALSE /\ codecImage' = NoImage /\ fsAtCall' = fs
    /\ UNCHANGED <<inputPath, outputPath, sliders, buttonState, progressRunning,
                   processing, viewButton, lastProcessed, fs>>
    /\ UNCHANGED cVars

\* lines 306-313: the result is shown in a message box
DoProcessImageResult ==
    /\ pc = "returned"
    /\ IF result # None
       THEN /\ lastProcessed' = result
            /\ viewButton' = "normal"
            /\ dialog' = "success"
       ELSE /\ dialog' = "failed"
            /\ UNCHANGED <<lastProcessed, viewButton>>
    /\ pc' = "dialog"
    /\ UNCHANGED <<inputPath, outputPath, sliders, buttonState, progressRunning,
                   processing, scheduled>>
    /\ UNCHANGED <<args, image, stages, result, failure, decoderCalled, codecImage,
                   fs, fsAtCall>>
    /\ UNCHANGED cVars

ButtonAfterRunWrong == "disabled"
\* line 321: self.process_button.config(state=tk.NORMAL)
ButtonAfterRun == "normal"

\* lines 319-323: the message box is closed and the finally clause runs
DoProcessImageFinally ==
    /\ pc = "dialog"
    /\ buttonState' = ButtonAfterRun
    /\ progressRunning' = FALSE
    /\ processing' = FALSE
    /\ pc' = "idle"
    /\ args' = NoArgs /\ image' = NoImage /\ stages' = <<>> /\ result' = "unset"
    /\ failure' = "none" /\ decoderCalled' = FALSE /\ codecImage' = NoImage
    /\ fsAtCall' = fs
    /\ UNCHANGED <<inputPath, outputPath, sliders, scheduled, viewButton,
                   lastProcessed, dialog, fs>>
    /\ UNCHANGED cVars

---------------------------------------------------------------------------
(* Spec: the application, from the form being built *)

InitCall ==
    /\ pc = "idle" /\ args = NoArgs /\ image = NoImage /\ stages = <<>>
    /\ result = "unset" /\ failure = "none" /\ decoderCalled = FALSE
    /\ codecImage = NoImage
    /\ fs = [dirs |-> {}, files |-> {}] /\ fsAtCall = fs

InitUi ==
    /\ inputPath = "" /\ outputPath = ""
    /\ sliders = DefaultSliders
    /\ buttonState = "normal" /\ progressRunning = FALSE /\ processing = FALSE
    /\ scheduled = 0 /\ viewButton = "disabled"
    /\ lastProcessed = None /\ dialog = "none"

InitContrast == cSample = 0 /\ cContrast = 0 /\ cOut = 0

Init == InitUi /\ InitCall /\ InitContrast

Next ==
    \/ EditInputPath \/ BrowseInputFile \/ EditOutputPath
    \/ MoveSlider \/ ResetParameters
    \/ ProcessImage
    \/ DoProcessImageStart
    \/ ProcessRawImage
    \/ DoProcessImageResult
    \/ DoProcessImageFinally

Spec == Init /\ [][Next]_vars

---------------------------------------------------------------------------
(* FairSpec: runs of the form with the sliders left where they are *)

\* slider settings a run starts from: the defaults, every optional stage
\* switched off, and both ends of every range
RunSliders ==
    {DefaultSliders,
     [DefaultSliders EXCEPT !.noise_reduction = 0, !.saturation = 50 * Ticks,
                            !.contrast = 50 * Ticks],
     [name \in SliderNames |-> SliderFrom(name) * Ticks],
     [name \in SliderNames |-> SliderTo(name) * Ticks]}

InitRun ==
    /\ inputPath = "" /\ outputPath = ""
    /\ sliders \in RunSliders
    /\ buttonState = "normal" /\ progressRunning = FALSE /\ processing = FALSE
    /\ scheduled = 0 /\ viewButton = "disabled"
    /\ lastProcessed = None /\ dialog = "none"
    /\ InitCall /\ InitContrast

NextRun ==
    \/ EditInputPath \/ BrowseInputFile \/ EditOutputPath
    \/ ProcessImage
    \/ DoProcessImageStart
    \/ ProcessRawImage
    \/ DoProcessImageResult
    \/ DoProcessImageFinally

\* The event loop runs the scheduled callback, a running handler runs to its end,
\* and the user closes the message box do_process_image shows.
FairSpec ==
    /\ InitRun /\ [][NextRun]_vars
    /\ WF_vars(DoProcessImageStart)
    /\ WF_vars(ProcessRawImage)
    /\ WF_vars(DoProcessImageResult)
    /\ WF_vars(DoProcessImageFinally)

---------------------------------------------------------------------------
(* SpecPipe: process_raw_image called directly, as the public function it is *)

\* parameter values of the direct calls, as numerators over Den
PipeSharpening == {0, 150 * Ticks, 300 * Ticks}
PipeSigma      == {0, 1, 3}
PipeNoise      == {0, 30 * Ticks}
PipeSaturation == {0, Den, 110 * Ticks}
PipeContrast   == {0, Den, 110 * Ticks, 2 * Den}

\* the defaults of the signature (line 12)
SignatureDefaults ==
    [sharpening_strength |-> 150 * Ticks, blur_sigma |-> 3, jpeg_quality |-> 95,
     noise_reduction |-> 0, saturation |-> Den, contrast |-> Den]

PipeInputPaths  == {"", "missing.cr2", "corrupt.cr2", "photo.cr2", "mono.dng",
                    "mono2d.dng"}
PipeOutputPaths == {"", "out.jpg", "home/photo_processed.jpg", "new/out.jpg",
                    "ro/out.jpg", "blocked/x/out.jpg"}
PipeRasterPaths == {"photo.cr2", "gray.cr2", "edge.cr2", "dark.cr2"}

\* The calls explored: every input file with every output path under two
\* parameter sets, and every raster with every parameter combination.
PipeCalls ==
    {[input_path |-> i, output_path |-> o] @@ p :
        i \in PipeInputPaths, o \in PipeOutputPaths,
        p \in {SignatureDefaults, Normalize(DefaultSliders)}}
    \cup
    {[input_path |-> i, output_path |-> "new/out.jpg", sharpening_strength |-> sh,
      blur_sigma |-> sg, jpeg_quality |-> 95, noise_reduction |-> nr,
      saturation |-> sa, contrast |-> co] :
        i \in PipeRasterPaths, sh \in PipeSharpening, sg \in PipeSigma,
        nr \in PipeNoise, sa \in PipeSaturation, co \in PipeContrast}

InitPipe ==
    /\ InitUi /\ InitContrast
    /\ pc = "exists"
    /\ args \in PipeCalls
    /\ image = NoImage /\ stages = <<>> /\ result = "unset" /\ failure = "none"
    /\ decoderCalled = FALSE /\ codecImage = NoImage
    /\ fs \in {[dirs |-> d, files |-> {}] : d \in SUBSET {"new"}}
    /\ fsAtCall = fs

SpecPipe == InitPipe /\ [][ProcessRawImage]_vars

---------------------------------------------------------------------------
(* SpecContrast: the contrast formula of lines 80-83 on one sample *)

InitSample ==
    /\ InitUi /\ InitCall
    /\ cSample \in 0..255
    /\ cContrast \in {ScaleContrast(q) : q \in 0..(100 * Ticks)} \ {Den}
    /\ cOut = -1

ApplyContrast ==
    /\ cOut = -1
    /\ cOut' \in ContrastSample(cSample, cContrast)
    /\ UNCHANGED <<cSample, cContrast, uiVars, callVars>>

SpecContrast == InitSample /\ [][ApplyContrast]_vars

---------------------------------------------------------------------------
(* Properties *)

\* process_raw_image has been called and has not yet returned to the event loop
InCall == pc \notin {"idle", "dialog"}

\* the six parameters of a call
Params(a) ==
    [sharpening_strength |-> a.sharpening_strength, blur_sigma |-> a.blur_sigma,
     jpeg_quality |-> a.jpeg_quality, noise_reduction |-> a.noise_reduction,
     saturation |-> a.saturation, contrast |-> a.contrast]

\* C1 (as stated in the specification): when a call of process_raw_image has returned, any failure
\* (missing input, decoder, enhancement stage, JPEG write) gave None, and an output
\* path was returned only if the JPEG file was written.
C1_FailureGivesNone ==
    pc = "returned" =>
        /\ failure # "none" => result = None
        /\ result # None => result \in fs.files

\* C2: a call with an input path that does not exist returns None and, at every
\* point of the call, has changed nothing in the file system and has invoked
\* neither the decoder, a pipeline stage nor the codec.
C2_MissingInputTouchesNothing ==
    (InCall /\ args.input_path \in {"", "missing.cr2"}) =>
        /\ fs = fsAtCall
        /\ ~decoderCalled
        /\ stages = <<>>
        /\ image = NoImage
        /\ codecImage = NoImage
        /\ pc \in {"exists", "returned"}
        /\ pc = "returned" => result = None

\* a missing input with an output directory that the call would have created
C2_Witness ==
    /\ pc = "returned"
    /\ args.input_path = "missing.cr2"
    /\ args.output_path = "new/out.jpg"
    /\ "new" \notin fs.dirs
    /\ result = None

\* C3 (as stated in the specification): the parameters passed by do_process_image are the transform of
\* the sliders with blurSigma = round(uiBlur) and jpegQuality = round(uiQuality).
C3_RoundedTransform ==
    InCall =>
        Params(args) =
            [sharpening_strength |-> 3 * sliders.sharpening_strength,
             blur_sigma          |-> RoundHalfEven(sliders.blur_sigma, Ticks),
             jpeg_quality        |-> RoundHalfEven(sliders.jpeg_quality, Ticks),
             noise_reduction     |-> sliders.noise_reduction,
             saturation          |-> 2 * sliders.saturation,
             contrast            |-> 2 * sliders.contrast]

\* C3 (amended): the parameters passed by do_process_image are sharpening =
\* ui/100*3, noise = ui/100, saturation = ui/50, contrast = ui/50, and blurSigma
\* and jpegQuality are the slider values with their fraction dropped.
C3_TruncatedTransform ==
    InCall =>
        /\ args.sharpening_strength = 3 * sliders.sharpening_strength
        /\ args.noise_reduction = sliders.noise_reduction
        /\ args.saturation = 2 * sliders.saturation
        /\ args.contrast = 2 * sliders.contrast
        /\ args.blur_sigma * Ticks <= sliders.blur_sigma
        /\ sliders.blur_sigma < (args.blur_sigma + 1) * Ticks
        /\ args.jpeg_quality * Ticks <= sliders.jpeg_quality
        /\ sliders.jpeg_quality < (args.jpeg_quality + 1) * Ticks

\* a call made with the blur and quality sliders between two integers
C3_Witness ==
    /\ InCall
    /\ sliders.blur_sigma % Ticks # 0
    /\ sliders.jpeg_quality % Ticks # 0
    /\ 2 * (sliders.blur_sigma % Ticks) > Ticks

\* C4: the parameters of every call made from the form lie in the native ranges:
\* sharpening in [0,3], blurSigma in [1,100], jpegQuality in [50,100], noise in
\* [0,1], saturation and contrast in [0,2].
C4_NativeRanges ==
    InCall =>
        /\ 0 <= args.sharpening_strength /\ args.sharpening_strength <= 3 * Den
        /\ 1 <= args.blur_sigma /\ args.blur_sigma <= 100
        /\ 50 <= args.jpeg_quality /\ args.jpeg_quality <= 100
        /\ 0 <= args.noise_reduction /\ args.noise_reduction <= Den
        /\ 0 <= args.saturation /\ args.saturation <= 2 * Den
        /\ 0 <= args.contrast /\ args.contrast <= 2 * Den

\* a call with sliders at the ends of their ranges
C4_Witness ==
    /\ InCall
    /\ args.sharpening_strength = 3 * Den
    /\ args.blur_sigma = 1
    /\ args.jpeg_quality = 50
    /\ args.saturation = 2 * Den
    /\ args.contrast = 0

\* the neutral parameters of the identity property
IdentityParams(a) ==
    /\ a.sharpening_strength = 0 /\ a.noise_reduction = 0
    /\ a.saturation = Den /\ a.contrast = Den

\* the raster the pipeline receives: the decoded raster in BGR order
PipelineInput(a) ==
    LET r == FileRaster(a.input_path)
    IN  [r EXCEPT !.px = [i \in DOMAIN r.px |-> <<r.px[i][3], r.px[i][2], r.px[i][1]>>]]

C6_GrayscaleInputReachesCodec ==
    (pc = "returned" /\ decoderCalled /\ FileRaster(args.input_path).ch = 1) =>
        /\ codecImage # NoImage
        /\ codecImage.ch = 3

\* the stages the parameters ask for, in the fixed order
StagePlan(a) ==
    <<"sharpen">>
    \o (IF a.noise_reduction > 0 THEN <<"denoise">> ELSE <<>>)
    \o (IF a.saturation # Den \/ a.contrast # Den THEN <<"saturation">> ELSE <<>>)
    \o (IF a.contrast # Den THEN <<"contrast">> ELSE <<>>)

IsPrefix(s, t) == Len(s) <= Len(t) /\ s = SubSeq(t, 1, Len(s))

\* C7: the stages a call has run are always the first ones of sharpen, denoise
\* (iff noiseReduction > 0), saturation (iff saturation != 1 or contrast != 1),
\* contrast (iff contrast != 1), in that order; a call whose pipeline ran to the
\* end has run exactly those.
C7_StageOrder ==
    InCall =>
        /\ IsPrefix(stages, StagePlan(args))
        /\ (pc \in {"guard", "write"} \/ codecImage # NoImage) => stages = StagePlan(args)

\* a call that ran all four stages, and one that ran sharpen alone
C7_Witness ==
    /\ pc = "returned"
    /\ codecImage # NoImage
    /\ stages = <<"sharpen", "denoise", "saturation", "contrast">>

\* the exact value of the contrast formula, clamped to [0,255], times 2 Den
ClampedContrast2Den ==
    Clip((2 * cSample - 255) * cContrast + 255 * Den, 0, 255 * 2 * Den)

\* C8 (as stated in the specification): the contrast stage maps a sample to (p - 127.5) * contrast +
\* 127.5 clamped to [0,255] and rounded to the nearest integer.
C8_RoundedToNearest ==
    cOut # -1 =>
        /\ 2 * cOut * 2 * Den - 2 * ClampedContrast2Den <= 2 * Den
        /\ 2 * ClampedContrast2Den - 2 * cOut * 2 * Den <= 2 * Den

\* C8 (amended): the contrast stage maps a sample to (p - 127.5) * contrast + 127.5
\* clamped to [0,255] with its fraction dropped; where the exact value is an
\* integer the single-precision result can be that integer or the one below.
C8_Truncated ==
    cOut # -1 =>
        /\ cOut \in 0..255
        /\ cOut * 2 * Den <= ClampedContrast2Den
        /\ ClampedContrast2Den <= (cOut + 1) * 2 * Den
        /\ ClampedContrast2Den % (2 * Den) # 0 =>
               ClampedContrast2Den < (cOut + 1) * 2 * Den

\* a sample whose exact value has a fraction above one half: p = 129 at contrast 1.5
C8_Witness ==
    /\ cSample = 129
    /\ cContrast = 150 * Ticks
    /\ cOut = 129

\* the form is idle again
UiIdle ==
    /\ pc = "idle" /\ scheduled = 0
    /\ buttonState = "normal" /\ ~progressRunning /\ ~processing

\* C9: once process_image has scheduled the deferred run, the form returns to
\* idle (button enabled, progress bar stopped, processing False) whatever the
\* run's outcome.
C9_ReturnsToIdle == (scheduled > 0) ~> UiIdle

\* the form idle again after a run that failed with an exception
C9_Witness == UiIdle /\ dialog = "exception"

\* C10: at most one run is scheduled or executing, the button is disabled
\* whenever processing is True, and a click that fails a path check (its error
\* box is shown) changes neither button, progress bar, processing flag nor
\* schedule.
C10_SingleRun ==
    /\ [](/\ scheduled + (IF pc # "idle" THEN 1 ELSE 0) <= 1
          /\ processing => buttonState = "disabled")
    /\ [][(dialog' # dialog /\ dialog' \in {"select-input", "specify-output"}) =>
             UNCHANGED <<buttonState, progressRunning, processing, scheduled, pc>>]_vars

\* a run is scheduled after an earlier click was refused
C10_Witness ==
    /\ processing /\ scheduled = 1 /\ buttonState = "disabled"
    /\ dialog = "specify-output"

=============================================================================
